---- MODULE Spec2Model ----
(***************************************************************************)
(* Kashmir Wellness backend: the order service (stock decrement on create, *)
(* paid / delivered / status transitions) and the appointment service      *)
(* (booking, role-dispatched update) over the Mongoose models.             *)
(***************************************************************************)
EXTENDS Integers, Sequences, FiniteSets, TLC

VARIABLES
  role,      \* User.role, per user id
  doctors,   \* Doctor collection: doctor id -> document
  labs,      \* Lab collection: lab id -> document
  stock,     \* Medicine.stock, per medicine id
  orders,    \* Order collection: sequence of documents, index = _id
  creq,      \* createOrder calls in flight, one record per request slot
  appts,     \* Appointment collection: sequence of documents, index = _id
  last,      \* the last completed service call and its outcome
  qry,       \* a list request: collection, query string, APIFeatures results
  acct       \* user credentials, reset tokens, the clock and the mail sent

vars == <<role, doctors, labs, stock, orders, creq, appts, last, qry, acct>>

auxVars == <<qry, acct>>

dirVars   == <<role, doctors, labs>>
orderVars == <<stock, orders, creq>>

(***************************************************************************)
(* Bounds                                                                  *)
(***************************************************************************)
MaxStock == 2        \* largest initial stock of a medicine
MaxQty == 2          \* largest quantity of a line item
MaxItems == 2        \* most line items in one order
MaxOrders == 2       \* most orders ever created in the createOrder runs
MaxFulfil == 1       \* most orders ever created in the fulfilment runs
MaxAppts == 1        \* most appointments ever created in the update runs
MaxBooked == 2       \* most appointments ever created in the booking runs
MaxSnap == 1         \* most appointments ever created in the directory runs
MaxRecs == 2         \* most records in the collection a list request reads
MaxTokens == 2       \* most reset tokens ever generated
MaxClock == 3        \* last tick of the clock

None == "none"       \* null / undefined / absent
Deleted == [deleted |-> TRUE]   \* a removed document (its _id is never reused)
NoDoc == [missing |-> TRUE]     \* what findById yields for an id with no document
IsDoc(d) == d \notin {Deleted, NoDoc}

(***************************************************************************)
(* Users, roles and the directory of doctors and labs                      *)
(***************************************************************************)
Users == {"u1", "u2", "ud1", "adm", "ls"}

Roles == {"user", "doctor", "admin", "lab_staff"}

InitRole == [u \in Users |->
               CASE u = "adm" -> "admin"
                 [] u = "ud1" -> "doctor"
                 [] u = "ls"  -> "lab_staff"
                 [] OTHER     -> "user"]

DoctorIds == {"D1", "D2"}
LabIds == {"L1"}

InitDoctors == [d \in DoctorIds |->
                  IF d = "D1"
                  THEN [user |-> "ud1", coordinates |-> "c1", clinicAddress |-> "addr1"]
                  ELSE [user |-> "ud2", coordinates |-> "c2", clinicAddress |-> None]]

InitLabs == [l \in LabIds |-> [user |-> "ls", coordinates |-> "c3", address |-> "addr3"]]

InitDir == /\ role = InitRole
           /\ doctors = InitDoctors
           /\ labs = InitLabs

(***************************************************************************)
(* Medicines and orders                                                    *)
(***************************************************************************)
Medicines == {"m1", "m2"}
MedicineRefs == Medicines \cup {"m0"}     \* "m0" matches no Medicine

OrderStatuses == {"pending", "processing", "shipped", "delivered", "cancelled"}

Times == {1, 2}                  \* values Date.now() may return
PaymentResults == {"pay1", "pay2"}

Item(m, q) == [medicine |-> m, quantity |-> q]

\* the orderItems arrays of at most n line items that reference meds
RECURSIVE ItemSeqs(_, _)
ItemSeqs(meds, n) ==
  IF n = 0 THEN {<< >>}
  ELSE LET shorter == ItemSeqs(meds, n - 1)
       IN  shorter \cup
           {Append(s, Item(m, q)) :
              s \in {t \in shorter : Len(t) = n - 1},
              m \in meds, q \in 1..MaxQty}

IdleReq == [pc |-> "idle", user |-> None, items |-> << >>, idx |-> 0,
            doc |-> 0, err |-> None, orderId |-> 0,
            stock0 |-> [m \in Medicines |-> 0], orders0 |-> 0]

Reqs == {"r1", "r2"}

NoCall == [op |-> None, who |-> None, id |-> 0, arg |-> None, res |-> None, pre |-> NoDoc,
           out |-> {}]

\* Order.create: the fields createOrder passes, the rest from the schema defaults
NewOrder(userId, orderItems) ==
  [user |-> userId, orderItems |-> orderItems,
   isPaid |-> FALSE, paidAt |-> 0, paymentResult |-> None,
   isDelivered |-> FALSE, deliveredAt |-> 0, orderStatus |-> "pending"]

\* Order.findById
OrderExists(id) == id \in 1..Len(orders) /\ orders[id] # Deleted

Returned(r) == creq[r].pc \in {"done", "failed"}
Active(r) == creq[r].pc # "idle"

(***************************************************************************)
(* OrderService.createOrder, one action per await                          *)
(***************************************************************************)
\* entry: destructure the payload, reject an empty item list
BeginCreateOrder(r, userId, orderItems) ==
  /\ creq[r].pc = "idle"
  /\ creq' = [creq EXCEPT ![r] =
       [IdleReq EXCEPT !.user = userId, !.items = orderItems, !.idx = 1,
                       !.stock0 = stock, !.orders0 = Len(orders),
                       !.pc = IF Len(orderItems) = 0 THEN "failed" ELSE "find",
                       !.err = IF Len(orderItems) = 0 THEN "noItems" ELSE None]]
  /\ UNCHANGED <<stock, orders>>

\* a variant that puts the stock back when a line item fails
FindMedicineRollback(r) ==
  /\ creq[r].pc = "find"
  /\ LET item == creq[r].items[creq[r].idx]
     IN  IF item.medicine \notin Medicines
         THEN /\ creq' = [creq EXCEPT ![r].pc = "failed", ![r].err = "notFound"]
              /\ stock' = creq[r].stock0
         ELSE IF stock[item.medicine] < item.quantity
         THEN /\ creq' = [creq EXCEPT ![r].pc = "failed", ![r].err = "insufficient"]
              /\ stock' = creq[r].stock0
         ELSE /\ creq' = [creq EXCEPT ![r].pc = "save",
                                      ![r].doc = stock[item.medicine] - item.quantity]
              /\ UNCHANGED stock
  /\ UNCHANGED orders

\* a variant whose stock check rejects a quantity equal to the stock
FindMedicineStrict(r) ==
  /\ creq[r].pc = "find"
  /\ LET item == creq[r].items[creq[r].idx]
     IN  IF item.medicine \notin Medicines
         THEN creq' = [creq EXCEPT ![r].pc = "failed", ![r].err = "notFound"]
         ELSE IF stock[item.medicine] <= item.quantity
         THEN creq' = [creq EXCEPT ![r].pc = "failed", ![r].err = "insufficient"]
         ELSE creq' = [creq EXCEPT ![r].pc = "save",
                                   ![r].doc = stock[item.medicine] - item.quantity]
  /\ UNCHANGED <<stock, orders>>

\* await Medicine.findById(item.medicine), then the checks and the in-memory
\* decrement that run before the next await
FindMedicine(r) ==
  /\ creq[r].pc = "find"
  /\ LET item == creq[r].items[creq[r].idx]
     IN  IF item.medicine \notin Medicines
         THEN creq' = [creq EXCEPT ![r].pc = "failed", ![r].err = "notFound"]
         ELSE IF stock[item.medicine] < item.quantity
         THEN creq' = [creq EXCEPT ![r].pc = "failed", ![r].err = "insufficient"]
         ELSE creq' = [creq EXCEPT ![r].pc = "save",
                                   ![r].doc = stock[item.medicine] - item.quantity]
  /\ UNCHANGED <<stock, orders>>

\* a variant writing with an atomic $inc and no document validation
SaveMedicineInc(r) ==
  /\ creq[r].pc = "save"
  /\ LET item == creq[r].items[creq[r].idx]
     IN  /\ stock' = [stock EXCEPT ![item.medicine] = @ - item.quantity]
         /\ creq' = [creq EXCEPT
              ![r].pc = IF creq[r].idx = Len(creq[r].items) THEN "create" ELSE "find",
              ![r].idx = @ + 1]
  /\ UNCHANGED orders

\* await medicine.save(): writes the value computed from the document read
\* earlier; the schema validator (min 0) runs on the modified path
SaveMedicine(r) ==
  /\ creq[r].pc = "save"
  /\ LET item == creq[r].items[creq[r].idx]
     IN  IF creq[r].doc < 0
         THEN /\ creq' = [creq EXCEPT ![r].pc = "failed", ![r].err = "validation"]
              /\ UNCHANGED stock
         ELSE /\ stock' = [stock EXCEPT ![item.medicine] = creq[r].doc]
              /\ creq' = [creq EXCEPT
                   ![r].pc = IF creq[r].idx = Len(creq[r].items) THEN "create" ELSE "find",
                   ![r].idx = @ + 1]
  /\ UNCHANGED orders

\* await Order.create({...}); return order
InsertOrder(r) ==
  /\ creq[r].pc = "create"
  /\ orders' = Append(orders, NewOrder(creq[r].user, creq[r].items))
  /\ creq' = [creq EXCEPT ![r].pc = "done", ![r].orderId = Len(orders) + 1]
  /\ UNCHANGED stock

\* the controller sends the response; the request slot is free again
Reply(r) ==
  /\ Returned(r)
  /\ creq' = [creq EXCEPT ![r] = IdleReq]
  /\ UNCHANGED <<stock, orders>>

CreateOrderStep(r) == FindMedicine(r) \/ SaveMedicine(r) \/ InsertOrder(r) \/ Reply(r)

(***************************************************************************)
(* OrderService status operations (each a findById, checks, save)          *)
(***************************************************************************)
Call(op, who, id, arg, res, pre) ==
  [op |-> op, who |-> who, id |-> id, arg |-> arg, res |-> res, pre |-> pre, out |-> {}]

OrderDoc(id) == IF OrderExists(id) THEN orders[id] ELSE NoDoc

\* a variant that lets any non-admin cancel any order
updateOrderStatusAnyone(id, newStatus, authUser) ==
  LET call(res) == Call("updateOrderStatus", authUser, id, newStatus, res, OrderDoc(id))
  IN  IF ~OrderExists(id)
      THEN last' = call("notFound") /\ UNCHANGED orders
      ELSE IF role[authUser] = "admin"
      THEN /\ orders' = [orders EXCEPT ![id].orderStatus = newStatus]
           /\ last' = call("ok")
      ELSE IF newStatus = "cancelled"
      THEN /\ orders' = [orders EXCEPT ![id].orderStatus = "cancelled"]
           /\ last' = call("ok")
      ELSE last' = call("forbidden") /\ UNCHANGED orders

updateOrderStatus(id, newStatus, authUser) ==
  LET call(res) == Call("updateOrderStatus", authUser, id, newStatus, res, OrderDoc(id))
  IN  IF ~OrderExists(id)
      THEN last' = call("notFound") /\ UNCHANGED orders
      ELSE IF role[authUser] = "admin"
      THEN /\ orders' = [orders EXCEPT ![id].orderStatus = newStatus]
           /\ last' = call("ok")
      ELSE IF orders[id].user = authUser /\ newStatus = "cancelled"
      THEN /\ orders' = [orders EXCEPT ![id].orderStatus = "cancelled"]
           /\ last' = call("ok")
      ELSE last' = call("forbidden") /\ UNCHANGED orders

\* a variant without the already-paid check
updateOrderToPaidAgain(id, paymentResultData, now, authUser) ==
  LET call(res) == Call("updateOrderToPaid", authUser, id, paymentResultData, res, OrderDoc(id))
  IN  IF ~OrderExists(id)
      THEN last' = call("notFound") /\ UNCHANGED orders
      ELSE IF role[authUser] # "admin"
      THEN last' = call("forbidden") /\ UNCHANGED orders
      ELSE /\ orders' = [orders EXCEPT ![id].isPaid = TRUE, ![id].paidAt = now,
                                       ![id].paymentResult = paymentResultData]
           /\ last' = call("ok")

updateOrderToPaid(id, paymentResultData, now, authUser) ==
  LET call(res) == Call("updateOrderToPaid", authUser, id, paymentResultData, res, OrderDoc(id))
  IN  IF ~OrderExists(id)
      THEN last' = call("notFound") /\ UNCHANGED orders
      ELSE IF orders[id].isPaid
      THEN last' = call("alreadyPaid") /\ UNCHANGED orders
      ELSE IF role[authUser] # "admin"
      THEN last' = call("forbidden") /\ UNCHANGED orders
      ELSE /\ orders' = [orders EXCEPT ![id].isPaid = TRUE, ![id].paidAt = now,
                                       ![id].paymentResult = paymentResultData]
           /\ last' = call("ok")

updateOrderToDelivered(id, now, authUser) ==
  LET call(res) == Call("updateOrderToDelivered", authUser, id, None, res, OrderDoc(id))
  IN  IF ~OrderExists(id)
      THEN last' = call("notFound") /\ UNCHANGED orders
      ELSE IF orders[id].isDelivered
      THEN last' = call("alreadyDelivered") /\ UNCHANGED orders
      ELSE IF role[authUser] # "admin"
      THEN last' = call("forbidden") /\ UNCHANGED orders
      ELSE /\ orders' = [orders EXCEPT ![id].isDelivered = TRUE, ![id].deliveredAt = now,
                                       ![id].orderStatus = "delivered"]
           /\ last' = call("ok")

deleteOrder(id, authUser) ==
  LET call(res) == Call("deleteOrder", authUser, id, None, res, OrderDoc(id))
  IN  IF ~OrderExists(id)
      THEN last' = call("notFound") /\ UNCHANGED orders
      ELSE IF role[authUser] # "admin"
      THEN last' = call("unauthorized") /\ UNCHANGED orders
      ELSE /\ orders' = [orders EXCEPT ![id] = Deleted]
           /\ last' = call("ok")

\* getOrders with no query parameters (first page of 25): the ids of the
\* orders of the list it returns
getOrders(authUser) ==
  LET call(res, found) ==
        [Call("getOrders", authUser, 0, None, res, NoDoc) EXCEPT !.out = found]
      all == {i \in 1..Len(orders) : IsDoc(orders[i])}
  IN  /\ UNCHANGED orders
      /\ IF role[authUser] = "user"
         THEN last' = call("ok", {i \in all : orders[i].user = authUser})
         ELSE IF role[authUser] = "admin" THEN last' = call("ok", all)
         ELSE last' = call("forbidden", {})

getOrder(id, authUser) ==
  LET call(res) == Call("getOrder", authUser, id, None, res, OrderDoc(id))
  IN  /\ UNCHANGED orders
      /\ IF ~OrderExists(id) THEN last' = call("notFound")
         ELSE LET order == orders[id]
                  isOwner == order.user = authUser
                  isAdmin == role[authUser] = "admin"
              IN  IF ~isOwner /\ ~isAdmin
                  THEN last' = call("unauthorized")
                  ELSE last' = call("ok")

(***************************************************************************)
(* Appointment model: schema defaults, validators and the unique index     *)
(***************************************************************************)
ApptTypes == {"online", "offline", "lab"}
ApptStatuses == {"pending", "confirmed", "cancelled", "completed"}

DefaultLocation == [coordinates |-> "0,0", address |-> "N/A"]
NoLocation == [coordinates |-> None, address |-> None]   \* no location in a payload

\* the payload leaves path f out
Absent(data, f) == IF f = "location" THEN data[f] = NoLocation ELSE data[f] = None

ApptFields == {"user", "doctor", "lab", "appointmentDate", "appointmentTime",
               "type", "status", "reason", "location"}

\* the value the schema gives a path the payload leaves out
SchemaDefault(f) ==
  CASE f = "type"     -> "offline"
    [] f = "status"   -> "pending"
    [] f = "location" -> DefaultLocation
    [] OTHER          -> None

\* new Appointment(data): payload paths, schema defaults for the others
NewAppointment(data) ==
  [f \in ApptFields |-> IF ~Absent(data, f) THEN data[f] ELSE SchemaDefault(f)]

\* document validation on save: required (plain and conditional) and enum
ValidAppointment(doc) ==
  /\ doc.user # None
  /\ (doc.type # "lab") => doc.doctor # None
  /\ (doc.type = "lab") => doc.lab # None
  /\ doc.appointmentDate # None
  /\ doc.appointmentTime # None
  /\ doc.type \in ApptTypes
  /\ doc.status \in ApptStatuses

\* the compound unique index {user, doctor, appointmentDate, appointmentTime};
\* a null doctor is an indexed value like any other
IndexKey(doc) == <<doc.user, doc.doctor, doc.appointmentDate, doc.appointmentTime>>

DuplicateKey(doc, self) ==
  \E j \in 1..Len(appts) : /\ j # self
                           /\ IsDoc(appts[j])
                           /\ IndexKey(appts[j]) = IndexKey(doc)

\* update validators of findByIdAndUpdate(..., {runValidators: true}): only
\* the paths present in the update are validated
ValidUpdate(upd) ==
  /\ upd.type # None => upd.type \in ApptTypes
  /\ upd.status # None => upd.status \in ApptStatuses

\* $set of the paths present in the update
ApplyUpdate(doc, upd) ==
  [f \in ApptFields |-> IF ~Absent(upd, f) THEN upd[f] ELSE doc[f]]

ApptExists(id) == id \in 1..Len(appts) /\ IsDoc(appts[id])
ApptDoc(id) == IF ApptExists(id) THEN appts[id] ELSE NoDoc

NoUpdate == [f \in ApptFields |-> IF f = "location" THEN NoLocation ELSE None]

\* Appointment.findByIdAndUpdate(id, upd, {new: true, runValidators: true});
\* call is the record of the service call being served
FindByIdAndUpdate(call, id, upd) ==
  IF ~ValidUpdate(upd)
  THEN last' = [call EXCEPT !.res = "validation"] /\ UNCHANGED appts
  ELSE IF DuplicateKey(ApplyUpdate(appts[id], upd), id)
  THEN last' = [call EXCEPT !.res = "duplicate"] /\ UNCHANGED appts
  ELSE /\ appts' = [appts EXCEPT ![id] = ApplyUpdate(appts[id], upd)]
       /\ last' = [call EXCEPT !.res = "ok"]

\* Doctor.findOne({ user: userId })
DoctorProfileOf(userId) == {d \in DoctorIds : IsDoc(doctors[d]) /\ doctors[d].user = userId}

(***************************************************************************)
(* AppointmentService                                                      *)
(***************************************************************************)
\* doctor.location && doctor.location.coordinates && doctor.clinicAddress
DoctorHasLocation(d) == doctors[d].coordinates # None /\ doctors[d].clinicAddress # None
DoctorSnapshot(d) ==
  [coordinates |-> doctors[d].coordinates, address |-> doctors[d].clinicAddress]

\* lab.location && lab.location.coordinates && lab.address
LabHasLocation(l) == labs[l].coordinates # None /\ labs[l].address # None
LabSnapshot(l) == [coordinates |-> labs[l].coordinates, address |-> labs[l].address]

\* a variant whose lab branch keeps a type sent by the caller
createAppointmentKeepType(appointmentData, userId) ==
  LET call(res, id) == Call("createAppointment", userId, id, appointmentData, res, NoDoc)
      fail(res) == last' = call(res, 0) /\ UNCHANGED appts
      data0 == [appointmentData EXCEPT !.user = userId]
      insert(data) ==
        LET doc == NewAppointment(data)
        IN  IF ~ValidAppointment(doc) THEN fail("validation")
            ELSE IF DuplicateKey(doc, 0) THEN fail("duplicate")
            ELSE /\ appts' = Append(appts, doc)
                 /\ last' = call("ok", Len(appts) + 1)
  IN  IF data0.doctor # None /\ data0.lab # None THEN fail("badRequest")
      ELSE IF data0.doctor = None /\ data0.lab = None THEN fail("badRequest")
      ELSE IF data0.doctor # None
      THEN LET data1 == [data0 EXCEPT !.type = IF @ # None THEN @ ELSE "offline"]
           IN  IF data0.doctor \notin DoctorIds \/ ~IsDoc(doctors[data0.doctor])
               THEN fail("notFound")
               ELSE IF DoctorHasLocation(data0.doctor)
               THEN insert([data1 EXCEPT !.location = DoctorSnapshot(data0.doctor)])
               ELSE insert(data1)
      ELSE LET data1 == [data0 EXCEPT !.type = IF @ # None THEN @ ELSE "lab"]
           IN  IF data0.lab \notin LabIds \/ ~IsDoc(labs[data0.lab])
               THEN fail("notFound")
               ELSE IF LabHasLocation(data0.lab)
               THEN insert([data1 EXCEPT !.location = LabSnapshot(data0.lab)])
               ELSE insert(data1)

createAppointment(appointmentData, userId) ==
  LET call(res, id) == Call("createAppointment", userId, id, appointmentData, res, NoDoc)
      fail(res) == last' = call(res, 0) /\ UNCHANGED appts
      data0 == [appointmentData EXCEPT !.user = userId]
      insert(data) ==
        LET doc == NewAppointment(data)
        IN  IF ~ValidAppointment(doc) THEN fail("validation")
            ELSE IF DuplicateKey(doc, 0) THEN fail("duplicate")
            ELSE /\ appts' = Append(appts, doc)
                 /\ last' = call("ok", Len(appts) + 1)
  IN  IF data0.doctor # None /\ data0.lab # None THEN fail("badRequest")
      ELSE IF data0.doctor = None /\ data0.lab = None THEN fail("badRequest")
      ELSE IF data0.doctor # None
      THEN LET data1 == [data0 EXCEPT !.type = IF @ # None THEN @ ELSE "offline"]
           IN  IF data0.doctor \notin DoctorIds \/ ~IsDoc(doctors[data0.doctor])
               THEN fail("notFound")
               ELSE IF DoctorHasLocation(data0.doctor)
               THEN insert([data1 EXCEPT !.location = DoctorSnapshot(data0.doctor)])
               ELSE insert(data1)
      ELSE LET data1 == [data0 EXCEPT !.type = "lab"]
           IN  IF data0.lab \notin LabIds \/ ~IsDoc(labs[data0.lab])
               THEN fail("notFound")
               ELSE IF LabHasLocation(data0.lab)
               THEN insert([data1 EXCEPT !.location = LabSnapshot(data0.lab)])
               ELSE insert(data1)

\* a variant whose doctor branch does not compare the profile with the appointment
updateAppointmentAnyDoctor(id, updateData, authUser) ==
  LET call(res) == Call("updateAppointment", authUser, id, updateData, res, ApptDoc(id))
      deny(res) == last' = call(res) /\ UNCHANGED appts
  IN  IF ~ApptExists(id) THEN deny("notFound")
      ELSE IF role[authUser] = "admin"
      THEN FindByIdAndUpdate(call("ok"), id, updateData)
      ELSE IF role[authUser] = "doctor"
      THEN IF DoctorProfileOf(authUser) = {}
           THEN deny("unauthorized")
           ELSE FindByIdAndUpdate(call("ok"), id,
                  [NoUpdate EXCEPT !.status = updateData.status, !.reason = updateData.reason])
      ELSE IF role[authUser] = "user"
      THEN IF appts[id].user # authUser \/ updateData.status # "cancelled"
           THEN deny("unauthorized")
           ELSE FindByIdAndUpdate(call("ok"), id, [NoUpdate EXCEPT !.status = "cancelled"])
      ELSE deny("forbidden")

\* a variant whose doctor branch passes the whole payload to the update
updateAppointmentSpread(id, updateData, authUser) ==
  LET call(res) == Call("updateAppointment", authUser, id, updateData, res, ApptDoc(id))
      deny(res) == last' = call(res) /\ UNCHANGED appts
  IN  IF ~ApptExists(id) THEN deny("notFound")
      ELSE IF role[authUser] = "admin"
      THEN FindByIdAndUpdate(call("ok"), id, updateData)
      ELSE IF role[authUser] = "doctor"
      THEN IF \/ DoctorProfileOf(authUser) = {}
              \/ appts[id].doctor \notin DoctorProfileOf(authUser)
           THEN deny("unauthorized")
           ELSE FindByIdAndUpdate(call("ok"), id, updateData)
      ELSE IF role[authUser] = "user"
      THEN IF appts[id].user # authUser \/ updateData.status # "cancelled"
           THEN deny("unauthorized")
           ELSE FindByIdAndUpdate(call("ok"), id, [NoUpdate EXCEPT !.status = "cancelled"])
      ELSE deny("forbidden")

updateAppointment(id, updateData, authUser) ==
  LET call(res) == Call("updateAppointment", authUser, id, updateData, res, ApptDoc(id))
      deny(res) == last' = call(res) /\ UNCHANGED appts
  IN  IF ~ApptExists(id) THEN deny("notFound")
      ELSE IF role[authUser] = "admin"
      THEN FindByIdAndUpdate(call("ok"), id, updateData)
      ELSE IF role[authUser] = "doctor"
      THEN IF \/ DoctorProfileOf(authUser) = {}
              \/ appts[id].doctor \notin DoctorProfileOf(authUser)
           THEN deny("unauthorized")
           ELSE FindByIdAndUpdate(call("ok"), id,
                  [NoUpdate EXCEPT !.status = updateData.status, !.reason = updateData.reason])
      ELSE IF role[authUser] = "user"
      THEN IF appts[id].user # authUser \/ updateData.status # "cancelled"
           THEN deny("unauthorized")
           ELSE FindByIdAndUpdate(call("ok"), id, [NoUpdate EXCEPT !.status = "cancelled"])
      ELSE deny("forbidden")

deleteAppointment(id, authUser) ==
  LET call(res) == Call("deleteAppointment", authUser, id, None, res, ApptDoc(id))
  IN  IF ~ApptExists(id)
      THEN last' = call("notFound") /\ UNCHANGED appts
      ELSE IF role[authUser] # "admin"
      THEN last' = call("unauthorized") /\ UNCHANGED appts
      ELSE /\ appts' = [appts EXCEPT ![id] = Deleted]
           /\ last' = call("ok")

\* populate({path: 'doctor'}): the referenced Doctor document, null when the
\* reference is empty or dangling
PopulateDoctor(doc) ==
  IF doc.doctor \in DoctorIds /\ IsDoc(doctors[doc.doctor])
  THEN doctors[doc.doctor]
  ELSE NoDoc

\* a variant that lets every doctor-role principal read every appointment
getAppointmentAnyDoctor(id, authUser) ==
  LET call(res) == Call("getAppointment", authUser, id, None, res, ApptDoc(id))
  IN  /\ UNCHANGED appts
      /\ IF ~ApptExists(id) THEN last' = call("notFound")
         ELSE LET appointment == appts[id]
                  isOwner == appointment.user = authUser
                  isAssignedDoctor == role[authUser] = "doctor"
                  isAdminOrLabStaff == role[authUser] \in {"admin", "lab_staff"}
              IN  IF ~isOwner /\ ~isAssignedDoctor /\ ~isAdminOrLabStaff
                  THEN last' = call("unauthorized")
                  ELSE last' = call("ok")

getAppointment(id, authUser) ==
  LET call(res) == Call("getAppointment", authUser, id, None, res, ApptDoc(id))
  IN  /\ UNCHANGED appts
      /\ IF ~ApptExists(id) THEN last' = call("notFound")
         ELSE LET appointment == appts[id]
                  doctor == PopulateDoctor(appointment)
                  appointmentDoctorUserIdStr ==
                    IF IsDoc(doctor) /\ doctor.user # None THEN doctor.user ELSE None
                  isOwner == appointment.user = authUser
                  isAssignedDoctor == /\ role[authUser] = "doctor"
                                      /\ appointmentDoctorUserIdStr # None
                                      /\ appointmentDoctorUserIdStr = authUser
                  isAdminOrLabStaff == role[authUser] \in {"admin", "lab_staff"}
              IN  IF ~isOwner /\ ~isAssignedDoctor /\ ~isAdminOrLabStaff
                  THEN last' = call("unauthorized")
                  ELSE last' = call("ok")

(***************************************************************************)
(* DoctorService.updateDoctor and LabService.updateLab behind their routes *)
(***************************************************************************)
Null == "null"             \* an explicit null in a request body
BadPoint == "bad"          \* a location whose coordinates array is not a pair

\* authorize(...roles): the route guard
authorize(roles, authUser) == role[authUser] \in roles

DoctorExists(id) == id \in DoctorIds /\ IsDoc(doctors[id])
DoctorDoc(id) == IF DoctorExists(id) THEN doctors[id] ELSE NoDoc

LabExists(id) == id \in LabIds /\ IsDoc(labs[id])
LabDoc(id) == IF LabExists(id) THEN labs[id] ELSE NoDoc

\* a request body of PUT /doctors/:id or PUT /labs/:id with no path set
NoProfileUpdate ==
  [user |-> None, latitude |-> None, longitude |-> None, address |-> None, location |-> None]

\* the latitude/longitude handling shared by updateDoctor and updateLab:
\* both present build the location and are removed from the update; "c9" is
\* [parseFloat(longitude), parseFloat(latitude)] of the one pair the runs send
WithPoint(updateData) ==
  IF updateData.latitude # None /\ updateData.longitude # None
  THEN [updateData EXCEPT !.location = "c9",
                          !.latitude = None, !.longitude = None]
  ELSE updateData

\* the unique index on Doctor.user
DoctorUserTaken(userId, self) ==
  \E d \in DoctorIds : d # self /\ IsDoc(doctors[d]) /\ doctors[d].user = userId

\* $set of the schema paths present in the update of a Doctor
ApplyDoctorUpdate(doc, upd) ==
  [user          |-> IF upd.user # None THEN upd.user ELSE doc.user,
   coordinates   |-> IF upd.location # None THEN upd.location ELSE doc.coordinates,
   clinicAddress |-> IF upd.address # None THEN upd.address ELSE doc.clinicAddress]

\* $set of the schema paths present in the update of a Lab; an explicit null
\* unsets the owning user
ApplyLabUpdate(doc, upd) ==
  [user        |-> IF upd.user = Null THEN None
                   ELSE IF upd.user # None THEN upd.user ELSE doc.user,
   coordinates |-> IF upd.location # None THEN upd.location ELSE doc.coordinates,
   address     |-> IF upd.address # None THEN upd.address ELSE doc.address]

\* a variant that rewrites the location of the doctor's appointments
updateDoctorCascade(id, updateData, authUser) ==
  LET call(res) == Call("updateDoctor", authUser, id, updateData, res, DoctorDoc(id))
      fail(res) == last' = call(res) /\ UNCHANGED <<doctors, appts>>
      upd == WithPoint(updateData)
      hasPoint == updateData.latitude # None /\ updateData.longitude # None
      addressOnly == /\ updateData.address # None /\ updateData.location = None
                     /\ updateData.latitude = None /\ updateData.longitude = None
  IN  IF ~hasPoint /\ ~addressOnly /\ updateData.location = BadPoint
      THEN fail("badRequest")
      ELSE IF ~DoctorExists(id) THEN fail("notFound")
      ELSE IF upd.user # None /\ DoctorUserTaken(upd.user, id) THEN fail("duplicate")
      ELSE LET doc == ApplyDoctorUpdate(doctors[id], upd)
           IN  /\ doctors' = [doctors EXCEPT ![id] = doc]
               /\ last' = call("ok")
               /\ appts' = [i \in 1..Len(appts) |->
                     IF IsDoc(appts[i]) /\ appts[i].doctor = id
                     THEN [appts[i] EXCEPT !.location =
                             [coordinates |-> doc.coordinates, address |-> doc.clinicAddress]]
                     ELSE appts[i]]

\* DoctorService.updateDoctor(id, updateData); the controller also hands it
\* req.user, which the service does not read
updateDoctor(id, updateData, authUser) ==
  LET call(res) == Call("updateDoctor", authUser, id, updateData, res, DoctorDoc(id))
      fail(res) == last' = call(res) /\ UNCHANGED <<doctors, appts>>
      upd == WithPoint(updateData)
      hasPoint == updateData.latitude # None /\ updateData.longitude # None
      addressOnly == /\ updateData.address # None /\ updateData.location = None
                     /\ updateData.latitude = None /\ updateData.longitude = None
  IN  IF ~hasPoint /\ ~addressOnly /\ updateData.location = BadPoint
      THEN fail("badRequest")
      ELSE IF ~DoctorExists(id) THEN fail("notFound")
      ELSE IF upd.user # None /\ DoctorUserTaken(upd.user, id) THEN fail("duplicate")
      ELSE /\ doctors' = [doctors EXCEPT ![id] = ApplyDoctorUpdate(doctors[id], upd)]
           /\ last' = call("ok")
           /\ UNCHANGED appts

\* PUT /doctors/:id: protect, authorize('admin', 'doctor'), updateDoctor
PutDoctor(id, body, authUser) ==
  IF ~authorize({"admin", "doctor"}, authUser)
  THEN /\ last' = Call("updateDoctor", authUser, id, body, "forbidden", DoctorDoc(id))
       /\ UNCHANGED <<doctors, appts>>
  ELSE updateDoctor(id, body, authUser)

updateLab(id, updateData, authUser) ==
  LET call(res) == Call("updateLab", authUser, id, updateData, res, LabDoc(id))
      fail(res) == last' = call(res) /\ UNCHANGED labs
      upd == WithPoint(updateData)
      hasPoint == updateData.latitude # None /\ updateData.longitude # None
  IN  IF ~LabExists(id) THEN fail("notFound")
      ELSE IF /\ labs[id].user # None
              /\ labs[id].user # authUser
              /\ role[authUser] # "admin"
      THEN fail("unauthorized")
      ELSE IF ~hasPoint /\ updateData.location = BadPoint THEN fail("badRequest")
      ELSE /\ labs' = [labs EXCEPT ![id] = ApplyLabUpdate(labs[id], upd)]
           /\ last' = call("ok")

\* PUT /labs/:id: protect, authorize('admin', 'lab_staff'), updateLab
PutLab(id, body, authUser) ==
  IF ~authorize({"admin", "lab_staff"}, authUser)
  THEN /\ last' = Call("updateLab", authUser, id, body, "forbidden", LabDoc(id))
       /\ UNCHANGED labs
  ELSE updateLab(id, body, authUser)

\* DoctorService.createDoctor(doctorData, userId): the role of the user is
\* saved before the location is built and before Doctor.create validates and
\* inserts.  A profile sent without coordinates and without a clinic address
\* reaches Doctor.create with an empty coordinates array, which the store
\* takes or refuses depending on the build.
createDoctor(doctorData, userId) ==
  LET call(res) == Call("createDoctor", userId, 0, doctorData, res,
                        [role |-> role, doctors |-> doctors])
      promoted == [role EXCEPT ![userId] = "doctor"]
      hasPoint == doctorData.latitude # None /\ doctorData.longitude # None
      free == {d \in DoctorIds : doctors[d] = NoDoc}
      id == CHOOSE d \in free : TRUE
      emailTaken == \E d \in DoctorIds : IsDoc(doctors[d]) /\ doctors[d].email = doctorData.email
      doctor == [user |-> userId,
                 coordinates |-> IF hasPoint THEN "c9" ELSE None,
                 clinicAddress |-> doctorData.clinicAddress,
                 email |-> doctorData.email]
      fail(res) == last' = call(res) /\ role' = promoted /\ UNCHANGED doctors
  IN  IF DoctorProfileOf(userId) # {}
      THEN last' = call("hasProfile") /\ UNCHANGED <<role, doctors>>
      ELSE IF ~hasPoint /\ doctorData.clinicAddress # None THEN fail("coordinatesRequired")
      ELSE IF doctorData.name = None THEN fail("validation")
      ELSE IF emailTaken THEN fail("duplicateKey")
      ELSE \/ /\ ~hasPoint
              /\ fail("validation")
           \/ /\ free # {}
              /\ doctors' = [doctors EXCEPT ![id] = doctor]
              /\ role' = promoted
              /\ last' = [call("ok") EXCEPT !.id = id]

\* DoctorService.deleteDoctor(id)
deleteDoctor(id) ==
  IF ~DoctorExists(id)
  THEN /\ last' = Call("deleteDoctor", None, id, None, "notFound", NoDoc)
       /\ UNCHANGED doctors
  ELSE /\ doctors' = [doctors EXCEPT ![id] = Deleted]
       /\ last' = Call("deleteDoctor", None, id, None, "ok", doctors[id])

(***************************************************************************)
(* APIFeatures: the query composer of the list endpoints.  Strings that    *)
(* the code parses or searches are sequences of characters; an absent      *)
(* query parameter is the empty string.                                    *)
(***************************************************************************)
DefaultPage == 1
DefaultLimit == 25

\* the decimal digits and their values
Digit ==
  [c \in {"0", "1", "2", "3", "4", "5", "6", "7", "8", "9"} |->
     CASE c = "0" -> 0 [] c = "1" -> 1 [] c = "2" -> 2 [] c = "3" -> 3 [] c = "4" -> 4
       [] c = "5" -> 5 [] c = "6" -> 6 [] c = "7" -> 7 [] c = "8" -> 8 [] c = "9" -> 9]

\* the value of the run of digits of s that starts at position i
RECURSIVE DigitsValue(_, _, _)
DigitsValue(s, i, acc) ==
  IF i > Len(s) \/ s[i] \notin DOMAIN Digit THEN acc
  ELSE DigitsValue(s, i + 1, 10 * acc + Digit[s[i]])

\* parseInt(s, 10): an optional sign and the longest run of digits after it;
\* NaN when there is no digit there
parseInt(s) ==
  LET neg == Len(s) > 0 /\ s[1] = "-"
      start == IF neg THEN 2 ELSE 1
  IN  IF start > Len(s) \/ s[start] \notin DOMAIN Digit THEN [nan |-> TRUE, val |-> 0]
      ELSE [nan |-> FALSE,
            val |-> IF neg THEN 0 - DigitsValue(s, start, 0) ELSE DigitsValue(s, start, 0)]

\* v || d on the result of parseInt: NaN and 0 are falsy
OrElse(v, d) == IF v.nan \/ v.val = 0 THEN d ELSE v.val

\* the text in lower case; A and S are the capitals the runs use
Lower(t) ==
  [i \in 1..Len(t) |-> CASE t[i] = "A" -> "a" [] t[i] = "S" -> "s" [] OTHER -> t[i]]

\* text contains k as a substring
IsSubstr(k, t) ==
  \E i \in 0..(Len(t) - Len(k)) : SubSeq(t, i + 1, i + Len(k)) = k

\* queryStr.replace(/\b(gte|gt|lte|lt)\b/g, m => `$${m}`) on one word of the
\* JSON text, be it a key or a string value
Dollar(word) ==
  CASE word = "gte" -> "$gte" [] word = "gt" -> "$gt"
    [] word = "lte" -> "$lte" [] word = "lt" -> "$lt" [] OTHER -> word

NoConditions == [or |-> {}, all |-> {}]       \* the object {}

\* new APIFeatures(query, queryString)
NewFeatures(queryString) ==
  [queryString |-> queryString,
   searchConditions |-> NoConditions, filterConditions |-> NoConditions,
   find |-> << >>, sortBy |-> None, select |-> None, skip |-> 0, limit |-> 0]

\* search(searchFields): an $or of one case-insensitive $regex per field
search(f, searchFields) ==
  IF f.queryString.keyword # << >>
  THEN [f EXCEPT !.searchConditions =
          [or |-> {<<field, f.queryString.keyword>> : field \in searchFields}, all |-> {}]]
  ELSE f

\* filter(): the parameters left after the reserved ones are removed, with
\* the operator words of the JSON text prefixed by $; a filter is a triple
\* <<field, operator, value>>, operator "eq" standing for a plain value
filter(f) ==
  [f EXCEPT !.filterConditions =
     [or |-> {},
      all |-> {<<Dollar(c[1]),
                 IF c[2] = "eq" THEN "eq" ELSE Dollar(c[2]),
                 IF c[1] = "price" THEN c[3] ELSE Dollar(c[3])>> :
               c \in f.queryString.filters}]]

\* applyFind(): the groups that have keys, under $and when there are two;
\* the final conditions are held as the sequence of the groups that must
\* all match
applyFind(f) ==
  LET conditionsArray ==
        (IF f.searchConditions # NoConditions THEN << f.searchConditions >> ELSE << >>)
        \o (IF f.filterConditions # NoConditions THEN << f.filterConditions >> ELSE << >>)
  IN  [f EXCEPT !.find = f.find \o conditionsArray]

\* sort(): the collection is held in the order of the requested sort
sort(f) == [f EXCEPT !.sortBy = "-createdAt"]

\* limitFields()
limitFields(f) == [f EXCEPT !.select = "-__v"]

\* a variant that takes the page number for the number of pages to skip
paginateFromZero(f) ==
  LET page == OrElse(parseInt(f.queryString.page), DefaultPage)
      limit == OrElse(parseInt(f.queryString.limit), DefaultLimit)
      skip == page * limit
  IN  [f EXCEPT !.skip = skip, !.limit = limit]

paginate(f) ==
  LET page == OrElse(parseInt(f.queryString.page), DefaultPage)
      limit == OrElse(parseInt(f.queryString.limit), DefaultLimit)
      skip == (page - 1) * limit
  IN  [f EXCEPT !.skip = skip, !.limit = limit]

\* one group of conditions on one record: some { field: { $regex: keyword,
\* $options: 'i' } } of its $or, if it has one, and every filter condition
GroupHolds(rec, g) ==
  /\ g.or # {} =>
       \E c \in g.or : c[1] \in DOMAIN rec /\ IsSubstr(Lower(c[2]), Lower(rec[c[1]]))
  /\ \A c \in g.all :
       /\ c[1] \in DOMAIN rec
       /\ CASE c[2] = "eq"   -> rec[c[1]] = c[3]
            [] c[2] = "$gte" -> rec[c[1]] >= c[3]
            [] c[2] = "$gt"  -> rec[c[1]] > c[3]
            [] c[2] = "$lte" -> rec[c[1]] <= c[3]
            [] c[2] = "$lt"  -> rec[c[1]] < c[3]
            [] OTHER         -> FALSE

\* the positions of the records of recs that the conditions of f select
Matching(recs, f) ==
  SelectSeq([i \in 1..Len(recs) |-> i],
            LAMBDA i : \A k \in 1..Len(f.find) : GroupHolds(recs[i], f.find[k]))

\* await features.query when the store accepts it: skip(skip).limit(limit) on
\* the matching records; limit 0 is no limit, a negative limit counts as its
\* absolute value
QueryResult(recs, f) ==
  LET ids == Matching(recs, f)
      take == IF f.limit = 0 THEN Len(ids) ELSE IF f.limit < 0 THEN 0 - f.limit ELSE f.limit
      stop == IF f.skip + take < Len(ids) THEN f.skip + take ELSE Len(ids)
  IN  SubSeq(ids, f.skip + 1, stop)

\* the chain every list service runs: filter().sort().limitFields().paginate()
ListFeatures(queryParams) ==
  paginate(limitFields(sort(filter(NewFeatures(queryParams)))))

NoQuery ==
  [recs |-> << >>, params |-> [page |-> << >>, limit |-> << >>, keyword |-> << >>, filters |-> {}],
   op |-> None, out |-> << >>, err |-> None, windows |-> << >>]

\* MedicineService.getMedicines(queryParams), and likewise getDoctors, getLabs;
\* the store rejects a negative skip
getMedicines ==
  LET features == ListFeatures(qry.params)
  IN  /\ qry.op = None
      /\ qry' = IF features.skip < 0
                THEN [qry EXCEPT !.op = "list", !.err = "queryError"]
                ELSE [qry EXCEPT !.op = "list", !.out = QueryResult(qry.recs, features)]

\* the find conditions of search().filter().applyFind(), run on the collection
composeFind ==
  LET features == applyFind(filter(search(NewFeatures(qry.params), {"name", "description"})))
  IN  /\ qry.op = None
      /\ qry' = [qry EXCEPT !.op = "compose", !.out = QueryResult(qry.recs, features)]

\* the same list request sent again for the next page, until a page comes
\* back empty
nextPage ==
  LET n == Len(qry.windows) + 1
      text == << <<"1", "2", "3", "4", "5", "6", "7", "8", "9">>[n] >>
      features == ListFeatures([qry.params EXCEPT !.page = text])
  IN  /\ qry.op \in {None, "pages"}
      /\ qry.err = None
      /\ IF n = 1 THEN TRUE ELSE qry.windows[n - 1] # << >>
      /\ qry' = IF features.skip < 0
                THEN [qry EXCEPT !.op = "pages", !.err = "queryError"]
                ELSE [qry EXCEPT !.op = "pages",
                                 !.windows = Append(@, QueryResult(qry.recs, features))]

(***************************************************************************)
(* Password reset: UserSchema.methods.getResetPasswordToken and the        *)
(* forgotPassword / resetPassword handlers.  The clock ticks every five    *)
(* minutes; a raw token is the number of the randomBytes draw it came from *)
(***************************************************************************)
TokenTTL == 2              \* 10 * 60 * 1000 ms, in ticks
MinPassword == 6           \* minlength of User.password

Accounts == {"u1", "u2"}   \* the users, named by their email

\* crypto.createHash('sha256').update(token).digest('hex')
Hash(token) == token + MaxTokens

\* bcrypt.hash(password, salt) of the pre-save hook
Bcrypt(password) == <<"$2a$">> \o password

InitAcct ==
  [users |-> [u \in Accounts |->
                [password |-> Bcrypt(<<"o", "l", "d", "p", "w", "d">>),
                 resetPasswordToken |-> 0, resetPasswordExpire |-> 0]],
   now |-> 0,
   issued |-> 0,       \* randomBytes draws so far
   sent |-> {},        \* the raw tokens mailed: [token, user, expire]
   latest |-> [u \in Accounts |-> 0],   \* the last token generated for a user
   tried |-> {},       \* raw tokens resetPassword has been called with
   spent |-> {}]       \* raw tokens resetPassword has succeeded with

\* a variant that tells the caller when no user has the email
forgotPasswordReveal(email, delivered) ==
  LET call(res) ==
        [Call("forgotPassword", None, 0, [email |-> email, delivered |-> delivered],
              res, NoDoc) EXCEPT !.pre = acct]
  IN  IF email \notin Accounts
      THEN last' = call([status |-> 404, data |-> "User not found"]) /\ UNCHANGED acct
      ELSE LET resetToken == acct.issued + 1
           IN  /\ acct.issued < MaxTokens
               /\ IF delivered
                  THEN /\ acct' = [acct EXCEPT
                            !.users[email].resetPasswordToken = Hash(resetToken),
                            !.users[email].resetPasswordExpire = acct.now + TokenTTL,
                            !.issued = resetToken,
                            !.latest[email] = resetToken,
                            !.sent = @ \cup {[token |-> resetToken, user |-> email,
                                              expire |-> acct.now + TokenTTL]}]
                       /\ last' = call([status |-> 200, data |-> "Email sent"])
                  ELSE /\ acct' = [acct EXCEPT
                            !.users[email].resetPasswordToken = 0,
                            !.users[email].resetPasswordExpire = 0,
                            !.issued = resetToken,
                            !.latest[email] = resetToken]
                       /\ last' = call([status |-> 500, data |-> "Email could not be sent"])

\* a variant that leaves the saved token in place when the email fails
forgotPasswordKeepToken(email, delivered) ==
  LET call(res) ==
        [Call("forgotPassword", None, 0, [email |-> email, delivered |-> delivered],
              res, NoDoc) EXCEPT !.pre = acct]
  IN  IF email \notin Accounts
      THEN last' = call([status |-> 200, data |-> "Email sent"]) /\ UNCHANGED acct
      ELSE LET resetToken == acct.issued + 1
           IN  /\ acct.issued < MaxTokens
               /\ IF delivered
                  THEN /\ acct' = [acct EXCEPT
                            !.users[email].resetPasswordToken = Hash(resetToken),
                            !.users[email].resetPasswordExpire = acct.now + TokenTTL,
                            !.issued = resetToken,
                            !.latest[email] = resetToken,
                            !.sent = @ \cup {[token |-> resetToken, user |-> email,
                                              expire |-> acct.now + TokenTTL]}]
                       /\ last' = call([status |-> 200, data |-> "Email sent"])
                  ELSE /\ acct' = [acct EXCEPT
                            !.users[email].resetPasswordToken = Hash(resetToken),
                            !.users[email].resetPasswordExpire = acct.now + TokenTTL,
                            !.issued = resetToken,
                            !.latest[email] = resetToken]
                       /\ last' = call([status |-> 500, data |-> "Email could not be sent"])

\* forgotPassword; delivered tells whether sendEmail resolves.  The response
\* is the status and the data of the JSON body or of the ErrorResponse
forgotPassword(email, delivered) ==
  LET call(res) ==
        [Call("forgotPassword", None, 0, [email |-> email, delivered |-> delivered],
              res, NoDoc) EXCEPT !.pre = acct]
  IN  IF email \notin Accounts
      THEN last' = call([status |-> 200, data |-> "Email sent"]) /\ UNCHANGED acct
      ELSE LET resetToken == acct.issued + 1
           IN  /\ acct.issued < MaxTokens
               /\ IF delivered
                  THEN /\ acct' = [acct EXCEPT
                            !.users[email].resetPasswordToken = Hash(resetToken),
                            !.users[email].resetPasswordExpire = acct.now + TokenTTL,
                            !.issued = resetToken,
                            !.latest[email] = resetToken,
                            !.sent = @ \cup {[token |-> resetToken, user |-> email,
                                              expire |-> acct.now + TokenTTL]}]
                       /\ last' = call([status |-> 200, data |-> "Email sent"])
                  ELSE /\ acct' = [acct EXCEPT
                            !.users[email].resetPasswordToken = 0,
                            !.users[email].resetPasswordExpire = 0,
                            !.issued = resetToken,
                            !.latest[email] = resetToken]
                       /\ last' = call([status |-> 500, data |-> "Email could not be sent"])

\* User.findOne({resetPasswordToken, resetPasswordExpire: {$gt: Date.now()}})
FindByResetToken(hashed) ==
  {u \in Accounts : /\ acct.users[u].resetPasswordToken = hashed
                     /\ acct.users[u].resetPasswordExpire > acct.now}

\* a variant that leaves the token and its expiry on the user
resetPasswordKeepToken(resettoken, password) ==
  LET call(who, res) ==
        [Call("resetPassword", who, 0, [token |-> resettoken, password |-> password],
              res, NoDoc) EXCEPT !.pre = acct]
      found == FindByResetToken(Hash(resettoken))
      noted == [acct EXCEPT !.tried = @ \cup ({resettoken} \cap (1..MaxTokens))]
  IN  IF found = {}
      THEN acct' = noted /\ last' = call(None, "invalidToken")
      ELSE LET user == CHOOSE u \in found : TRUE
           IN  IF Len(password) < MinPassword
               THEN acct' = noted /\ last' = call(user, "validation")
               ELSE /\ acct' = [noted EXCEPT
                         !.users[user].password = Bcrypt(password),
                         !.spent = @ \cup {resettoken}]
                    /\ last' = call(user, "ok")

\* resetPassword: hash the token of the URL, find the user, set the password,
\* clear the token fields, save (which validates the new password)
resetPassword(resettoken, password) ==
  LET call(who, res) ==
        [Call("resetPassword", who, 0, [token |-> resettoken, password |-> password],
              res, NoDoc) EXCEPT !.pre = acct]
      found == FindByResetToken(Hash(resettoken))
      noted == [acct EXCEPT !.tried = @ \cup ({resettoken} \cap (1..MaxTokens))]
  IN  IF found = {}
      THEN acct' = noted /\ last' = call(None, "invalidToken")
      ELSE LET user == CHOOSE u \in found : TRUE
           IN  IF Len(password) < MinPassword
               THEN acct' = noted /\ last' = call(user, "validation")
               ELSE /\ acct' = [noted EXCEPT
                         !.users[user].password = Bcrypt(password),
                         !.users[user].resetPasswordToken = 0,
                         !.users[user].resetPasswordExpire = 0,
                         !.spent = @ \cup {resettoken}]
                    /\ last' = call(user, "ok")

(***************************************************************************)
(* Concurrent createOrder calls: the awaits of different requests          *)
(* interleave freely                                                       *)
(***************************************************************************)
Buyers == {"u1"}

InitAux == qry = NoQuery /\ acct = InitAcct

InitOrders ==
  /\ InitDir
  /\ stock \in [Medicines -> 0..MaxStock]
  /\ orders = << >>
  /\ creq = [r \in Reqs |-> IdleReq]
  /\ appts = << >>
  /\ last = NoCall
  /\ InitAux

InFlight == {r \in Reqs : Active(r) /\ creq[r].pc # "done"}

RaceBegin ==
  \E r \in Reqs, u \in Buyers, its \in ItemSeqs(Medicines, MaxItems) :
    /\ Len(orders) + Cardinality(InFlight) < MaxOrders
    /\ BeginCreateOrder(r, u, its)

RaceFind == \E r \in Reqs : FindMedicine(r)
RaceSave == \E r \in Reqs : SaveMedicine(r)
RaceInsert == \E r \in Reqs : InsertOrder(r)
RaceReply == \E r \in Reqs : Reply(r)

NextRace ==
  /\ (RaceBegin \/ RaceFind \/ RaceSave \/ RaceInsert \/ RaceReply)
  /\ UNCHANGED <<auxVars, dirVars, appts, last>>

SpecRace == InitOrders /\ [][NextRace]_vars

(***************************************************************************)
(* createOrder calls executed one after the other                          *)
(***************************************************************************)
Quiet == \A r \in Reqs : ~Active(r)

\* no call is being served: the previous response has been sent
Ready == Quiet /\ last = NoCall

\* the controller sends the response of the call just served
Respond ==
  /\ last # NoCall
  /\ last' = NoCall
  /\ UNCHANGED <<auxVars, dirVars, orderVars, appts>>

SeqBegin ==
  \E u \in Buyers, its \in ItemSeqs(MedicineRefs, MaxItems) :
    /\ Quiet
    /\ Len(orders) < MaxOrders
    /\ BeginCreateOrder("r1", u, its)

SeqFind == FindMedicine("r1")
SeqSave == SaveMedicine("r1")
SeqInsert == InsertOrder("r1")
SeqReply == Reply("r1")

NextOrder ==
  /\ (SeqBegin \/ SeqFind \/ SeqSave \/ SeqInsert \/ SeqReply)
  /\ UNCHANGED <<auxVars, dirVars, appts, last>>

SpecOrder == InitOrders /\ [][NextOrder]_vars

\* C1: a createOrder call that runs alone with one line item of quantity Q
\* against a medicine of stock S returns success with the order persisted and
\* the stock at S-Q when Q <= S, and returns the insufficient-stock error with
\* no order persisted and the stock still S when Q > S.
C1_SingleItemOrder ==
  \A r \in Reqs :
    (Returned(r) /\ Len(creq[r].items) = 1 /\ creq[r].items[1].medicine \in Medicines) =>
      LET m == creq[r].items[1].medicine
          Q == creq[r].items[1].quantity
          S == creq[r].stock0[m]
      IN  IF Q <= S
          THEN /\ creq[r].pc = "done"
               /\ Len(orders) = creq[r].orders0 + 1
               /\ orders[Len(orders)] = NewOrder(creq[r].user, creq[r].items)
               /\ stock = [creq[r].stock0 EXCEPT ![m] = S - Q]
          ELSE /\ creq[r].pc = "failed"
               /\ creq[r].err = "insufficient"
               /\ Len(orders) = creq[r].orders0
               /\ stock = creq[r].stock0

C1_Witness_Success ==
  \E r \in Reqs : /\ creq[r].pc = "done" /\ Len(creq[r].items) = 1
                  /\ creq[r].items[1].quantity = MaxQty
                  /\ stock[creq[r].items[1].medicine] = creq[r].stock0[creq[r].items[1].medicine] - MaxQty

C1_Witness_Reject ==
  \E r \in Reqs : /\ creq[r].pc = "failed" /\ creq[r].err = "insufficient"
                  /\ Len(creq[r].items) = 1
                  /\ creq[r].stock0[creq[r].items[1].medicine] > 0

\* C2: in every state reachable by interleaved createOrder calls, the stock
\* of every medicine is at least 0.
C2_StockNonNegative == \A m \in Medicines : stock[m] >= 0

C2_Witness_Race ==
  \E r1, r2 \in Reqs :
    /\ r1 # r2
    /\ creq[r1].pc = "save" /\ creq[r2].pc = "done"
    /\ creq[r1].items[creq[r1].idx].medicine = creq[r2].items[1].medicine
    /\ creq[r1].doc > stock[creq[r1].items[creq[r1].idx].medicine]
       - creq[r1].items[creq[r1].idx].quantity

(***************************************************************************)
(* Order fulfilment: orders are placed, then paid, delivered, re-statused  *)
(* and deleted by principals of every role, one call at a time             *)
(***************************************************************************)
InitFulfil ==
  /\ InitDir
  /\ stock = [m \in Medicines |-> MaxStock]
  /\ orders = << >>
  /\ creq = [r \in Reqs |-> IdleReq]
  /\ appts = << >>
  /\ last = NoCall
  /\ InitAux

OrderIdsTried == 1..MaxFulfil

FulfilPlace ==
  /\ \E u \in Users :
       /\ Ready
       /\ Len(orders) < MaxFulfil
       /\ BeginCreateOrder("r1", u, << Item("m1", 1) >>)
  /\ UNCHANGED last

FulfilCreateStep == CreateOrderStep("r1") /\ UNCHANGED last

FulfilStatus ==
  /\ Ready
  /\ \E id \in OrderIdsTried, st \in OrderStatuses, p \in Users : updateOrderStatus(id, st, p)
  /\ UNCHANGED <<stock, creq>>

FulfilPaid ==
  /\ Ready
  /\ \E id \in OrderIdsTried, pay \in PaymentResults, now \in Times, p \in Users :
       updateOrderToPaid(id, pay, now, p)
  /\ UNCHANGED <<stock, creq>>

FulfilDelivered ==
  /\ Ready
  /\ \E id \in OrderIdsTried, now \in Times, p \in Users : updateOrderToDelivered(id, now, p)
  /\ UNCHANGED <<stock, creq>>

FulfilDelete ==
  /\ Ready
  /\ \E id \in OrderIdsTried, p \in Users : deleteOrder(id, p)
  /\ UNCHANGED <<stock, creq>>

FulfilGet ==
  /\ Ready
  /\ \E id \in OrderIdsTried, p \in Users : getOrder(id, p)
  /\ UNCHANGED <<stock, creq>>

FulfilList ==
  /\ Ready
  /\ \E p \in Users : getOrders(p)
  /\ UNCHANGED <<stock, creq>>

NextFulfil ==
  \/ /\ (FulfilPlace \/ FulfilCreateStep \/ FulfilStatus \/ FulfilPaid
          \/ FulfilDelivered \/ FulfilDelete \/ FulfilGet \/ FulfilList)
     /\ UNCHANGED <<auxVars, dirVars, appts>>
  \/ Respond

SpecFulfil == InitFulfil /\ [][NextFulfil]_vars

\* C9: updateOrderStatus on an existing order succeeds exactly when the
\* principal is an admin, or owns the order and asks for 'cancelled'; any
\* other call is rejected as forbidden and leaves the order as it was.
C9_StatusAuthorization ==
  (last.op = "updateOrderStatus" /\ IsDoc(last.pre)) =>
    LET allowed == \/ role[last.who] = "admin"
                   \/ (last.pre.user = last.who /\ last.arg = "cancelled")
    IN  /\ (last.res = "ok") <=> allowed
        /\ allowed => orders[last.id] = [last.pre EXCEPT !.orderStatus = last.arg]
        /\ ~allowed => (last.res = "forbidden" /\ orders[last.id] = last.pre)

C9_Witness_OwnerCancels ==
  /\ last.op = "updateOrderStatus" /\ last.res = "ok"
  /\ role[last.who] = "lab_staff" /\ last.pre.orderStatus # "cancelled"
  /\ orders[last.id].orderStatus = "cancelled"

C9_Witness_Forbidden ==
  /\ last.op = "updateOrderStatus" /\ last.res = "forbidden"
  /\ last.pre.user = last.who

PaidFields(o) == <<o.isPaid, o.paidAt, o.paymentResult>>

\* C10: updateOrderToPaid succeeds only for an admin on an order not yet
\* paid; on a paid order every call fails, and once an order is paid no call
\* changes its paid flag, paid timestamp or payment result again.
C10_PaidAtMostOnce ==
  /\ [](last.op = "updateOrderToPaid" =>
          /\ last.res = "ok" =>
               (role[last.who] = "admin" /\ IsDoc(last.pre) /\ ~last.pre.isPaid)
          /\ (IsDoc(last.pre) /\ last.pre.isPaid) =>
               (last.res # "ok" /\ orders[last.id] = last.pre))
  /\ [][\A id \in 1..Len(orders) :
          (IsDoc(orders[id]) /\ orders[id].isPaid /\ IsDoc(orders'[id]))
             => PaidFields(orders'[id]) = PaidFields(orders[id])]_vars

C10_Witness_SecondPay ==
  /\ last.op = "updateOrderToPaid" /\ last.res = "alreadyPaid"
  /\ role[last.who] = "admin"
  /\ last.arg # last.pre.paymentResult

(***************************************************************************)
(* Appointments: booked, then updated and deleted by principals of every   *)
(* role, one call at a time                                                *)
(***************************************************************************)
InitAppt ==
  /\ InitDir
  /\ stock = [m \in Medicines |-> MaxStock]
  /\ orders = << >>
  /\ creq = [r \in Reqs |-> IdleReq]
  /\ appts = << >>
  /\ last = NoCall
  /\ InitAux

LocX == [coordinates |-> "cx", address |-> "addrx"]    \* a location sent by a caller

Payload(doctor, lab, type, status, reason, time, user, location) ==
  [user |-> user, doctor |-> doctor, lab |-> lab,
   appointmentDate |-> IF time = None THEN None ELSE "day1", appointmentTime |-> time,
   type |-> type, status |-> status, reason |-> reason, location |-> location]

\* request bodies of POST /appointments tried in the update runs
ApptBodies ==
  {Payload(d, l, t, st, None, "t1", None, NoLocation) :
     d \in {None, "D1", "D2"}, l \in {None, "L1"},
     t \in {None, "online"}, st \in {None, "confirmed"}}

\* request bodies of PUT /appointments/:id: any status and reason, and at most
\* one further path
UpdateBodies ==
  LET extras == {NoUpdate,
                 [NoUpdate EXCEPT !.type = "lab"],
                 [NoUpdate EXCEPT !.type = "online"],
                 [NoUpdate EXCEPT !.doctor = "D2"],
                 [NoUpdate EXCEPT !.lab = "L1"],
                 [NoUpdate EXCEPT !.location = LocX]}
  IN  {[x EXCEPT !.status = st, !.reason = rs] :
         x \in extras,
         st \in ApptStatuses \cup {None, "bogus"},
         rs \in {None, "r1"}}

ApptCreate ==
  /\ Ready
  /\ Len(appts) < MaxAppts
  /\ \E body \in ApptBodies, p \in Users : createAppointment(body, p)

ApptUpdate ==
  /\ Ready
  /\ \E id \in 1..MaxAppts, body \in UpdateBodies, p \in Users : updateAppointment(id, body, p)

ApptDelete ==
  /\ Ready
  /\ \E id \in 1..MaxAppts, p \in Users : deleteAppointment(id, p)

ApptRead ==
  /\ Ready
  /\ \E id \in 1..MaxAppts, p \in Users : getAppointment(id, p)

NextAppt ==
  \/ /\ (ApptCreate \/ ApptUpdate \/ ApptDelete \/ ApptRead)
     /\ UNCHANGED <<auxVars, dirVars, orderVars>>
  \/ Respond

SpecAppt == InitAppt /\ [][NextAppt]_vars

(***************************************************************************)
(* Booking: appointments created from every shape of request body          *)
(***************************************************************************)
BookBodies ==
  {Payload(d, l, t, st, None, tm, u, NoLocation) :
     d \in {None, "D1", "D0"}, l \in {None, "L1", "L0"},
     t \in ApptTypes \cup {None, "bogus"}, st \in {None, "confirmed"},
     tm \in {None, "t1", "t2"}, u \in {None, "u2"}}

BookCreate ==
  /\ Ready
  /\ Len(appts) < MaxBooked
  /\ \E body \in BookBodies, p \in {"u1", "u2"} : createAppointment(body, p)

BookDelete ==
  /\ Ready
  /\ \E id \in 1..MaxBooked, p \in {"u1", "adm"} : deleteAppointment(id, p)

NextBook ==
  \/ /\ (BookCreate \/ BookDelete)
     /\ UNCHANGED <<auxVars, dirVars, orderVars>>
  \/ Respond

SpecBook == InitAppt /\ [][NextBook]_vars

(***************************************************************************)
(* Directory: doctor and lab profiles are updated through their routes by  *)
(* principals of every role while appointments are booked against them     *)
(***************************************************************************)
DirBook ==
  /\ Ready
  /\ Len(appts) < MaxSnap
  /\ \E d \in {None, "D1", "D2"}, l \in {None, "L1"} :
       createAppointment(Payload(d, l, None, None, None, "t1", None, NoLocation), "u1")
  /\ UNCHANGED <<doctors, labs>>

DirPutDoctor ==
  /\ Ready
  /\ \E id \in DoctorIds, p \in Users,
          body \in {[NoProfileUpdate EXCEPT !.latitude = "lat9", !.longitude = "lng9"],
                    [NoProfileUpdate EXCEPT !.latitude = "lat9"],
                    [NoProfileUpdate EXCEPT !.address = "addr9"],
                    [NoProfileUpdate EXCEPT !.location = BadPoint],
                    [NoProfileUpdate EXCEPT !.user = "u2"]} :
       PutDoctor(id, body, p)
  /\ UNCHANGED labs

DirPutLab ==
  /\ Ready
  /\ \E id \in LabIds, p \in Users,
          body \in {[NoProfileUpdate EXCEPT !.latitude = "lat9", !.longitude = "lng9"],
                    [NoProfileUpdate EXCEPT !.address = "addr9"],
                    [NoProfileUpdate EXCEPT !.location = BadPoint],
                    [NoProfileUpdate EXCEPT !.user = Null],
                    [NoProfileUpdate EXCEPT !.user = "ls"]} :
       PutLab(id, body, p)
  /\ UNCHANGED <<doctors, appts>>

NextDir ==
  \/ /\ (DirBook \/ DirPutDoctor \/ DirPutLab)
     /\ UNCHANGED <<auxVars, role, orderVars>>
  \/ Respond

SpecDir == InitAppt /\ [][NextDir]_vars

(***************************************************************************)
(* Doctor profiles are created and deleted through their routes; two of    *)
(* the users are admins and one profile exists at the start                *)
(***************************************************************************)
InitDoctor ==
  /\ role = [InitRole EXCEPT !["u2"] = "admin"]
  /\ doctors = [d \in DoctorIds |->
                  IF d = "D1"
                  THEN [user |-> "ud1", coordinates |-> "c1", clinicAddress |-> "addr1",
                        email |-> "e1"]
                  ELSE NoDoc]
  /\ labs = InitLabs
  /\ stock = [m \in Medicines |-> MaxStock]
  /\ orders = << >>
  /\ creq = [r \in Reqs |-> IdleReq]
  /\ appts = << >>
  /\ last = NoCall
  /\ InitAux

\* POST /doctors: protect, authorize('admin'), addDoctor, which hands the body
\* and req.user.id to createDoctor
DocPost ==
  /\ Ready
  /\ \E p \in Users,
          body \in [latitude : {None, "lat9"}, longitude : {None, "lng9"},
                    clinicAddress : {None, "addr9"}, name : {None, "n"},
                    email : {"e1", "e2"}] :
       IF ~authorize({"admin"}, p)
       THEN /\ last' = Call("createDoctor", p, 0, body, "forbidden",
                            [role |-> role, doctors |-> doctors])
            /\ UNCHANGED <<role, doctors>>
       ELSE createDoctor(body, p)

\* DELETE /doctors/:id: protect, authorize('admin'), deleteDoctor
DocDelete ==
  /\ Ready
  /\ \E p \in Users, id \in DoctorIds :
       IF ~authorize({"admin"}, p)
       THEN /\ last' = Call("deleteDoctor", p, id, None, "forbidden", NoDoc)
            /\ UNCHANGED doctors
       ELSE deleteDoctor(id)
  /\ UNCHANGED role

NextDoctor ==
  \/ /\ (DocPost \/ DocDelete)
     /\ UNCHANGED <<auxVars, labs, orderVars, appts>>
  \/ Respond

SpecDoctor == InitDoctor /\ [][NextDoctor]_vars

(***************************************************************************)
(* List requests: a collection and a query string are fixed, then the      *)
(* composer is run on them                                                 *)
(***************************************************************************)
RecordKinds ==
  {[name |-> t[1], description |-> t[2], tag |-> g, price |-> p] :
     t \in {<< <<"A", "s">>, <<"z">> >>,
            << <<"z">>, <<"a", "s", "p">> >>,
            << <<"z">>, <<"z">> >>},
     g \in {"a", "lt"}, p \in {0, 1}}

RECURSIVE RecSeqs(_)
RecSeqs(n) ==
  IF n = 0 THEN {<< >>}
  ELSE LET shorter == RecSeqs(n - 1)
       IN  shorter \cup {Append(t, k) : t \in {x \in shorter : Len(x) = n - 1},
                                        k \in RecordKinds}

QueryStrings ==
  [page : {<< >>, <<"2">>, <<"x">>},
   limit : {<< >>, <<"1">>, <<"2">>, <<"1", "x">>, <<"x">>, <<"0">>, <<"-", "1">>},
   keyword : {<< >>, <<"a", "s">>},
   filters : {{}, {<<"tag", "eq", "a">>}, {<<"tag", "eq", "lt">>},
              {<<"price", "gte", 1>>}, {<<"price", "lt", 1>>},
              {<<"tag", "eq", "a">>, <<"price", "gte", 1>>}}]

InitQuery ==
  /\ InitDir
  /\ stock = [m \in Medicines |-> MaxStock]
  /\ orders = << >>
  /\ creq = [r \in Reqs |-> IdleReq]
  /\ appts = << >>
  /\ last = NoCall
  /\ acct = InitAcct
  /\ \E r \in RecSeqs(MaxRecs), q \in QueryStrings :
       qry = [NoQuery EXCEPT !.recs = r, !.params = q]

NextQuery ==
  /\ (getMedicines \/ composeFind \/ nextPage)
  /\ UNCHANGED <<dirVars, orderVars, appts, last, acct>>

SpecQuery == InitQuery /\ [][NextQuery]_vars

(***************************************************************************)
(* Password reset requests, one call at a time, while the clock advances   *)
(***************************************************************************)
ResetForgot ==
  /\ Ready
  /\ \E email \in Accounts \cup {"nobody"}, delivered \in BOOLEAN :
       forgotPassword(email, delivered)

ResetReset ==
  /\ Ready
  /\ \E resettoken \in 1..(2 * MaxTokens),
          password \in {<< >>, <<"p", "w">>, <<"s", "e", "c", "r", "e", "t">>} :
       resetPassword(resettoken, password)

ResetTick ==
  /\ Ready
  /\ acct.now < MaxClock
  /\ acct' = [acct EXCEPT !.now = @ + 1]
  /\ UNCHANGED last

NextReset ==
  \/ /\ (ResetForgot \/ ResetReset \/ ResetTick)
     /\ UNCHANGED <<dirVars, orderVars, appts, qry>>
  \/ Respond

SpecReset == InitAppt /\ [][NextReset]_vars

(***************************************************************************)
(* Claims about createAppointment                                          *)
(***************************************************************************)
RefExists(body) ==
  \/ body.doctor # None /\ body.doctor \in DoctorIds /\ IsDoc(doctors[body.doctor])
  \/ body.lab # None /\ body.lab \in LabIds /\ IsDoc(labs[body.lab])

ExactlyOneRef(body) == (body.doctor # None) # (body.lab # None)

\* the type the booking rule gives an appointment created from body
RuleType(body) ==
  IF body.lab # None THEN "lab"
  ELSE IF body.type = None THEN "offline" ELSE body.type

\* another appointment already holds the index key of the one body asks for
KeyTaken(body, who, self) ==
  \E j \in 1..Len(appts) :
    /\ j # self
    /\ IsDoc(appts[j])
    /\ IndexKey(appts[j]) = <<who, body.doctor, body.appointmentDate, body.appointmentTime>>

C3_Witness_DoctorLabType ==
  /\ last.op = "createAppointment" /\ last.res = "validation"
  /\ last.arg.doctor = "D1" /\ last.arg.lab = None /\ last.arg.type = "lab"

\* C6: every appointment persisted by createAppointment has status
\* 'pending' and its user equal to the requesting principal, whatever the
\* request body contains.
C6_Original ==
  (last.op = "createAppointment" /\ last.res = "ok") =>
    /\ appts[last.id].status = "pending"
    /\ appts[last.id].user = last.who

(***************************************************************************)
(* Claims about updateAppointment                                          *)
(***************************************************************************)
\* C4: every persisted appointment has exactly one of doctor and lab set,
\* and its type is 'lab' exactly when the lab is the one set.
C4_Original ==
  \A i \in 1..Len(appts) :
    IsDoc(appts[i]) =>
      /\ (appts[i].doctor # None) # (appts[i].lab # None)
      /\ (appts[i].type = "lab") <=> (appts[i].lab # None)

StatusEdges == {<<"pending", "confirmed">>, <<"pending", "cancelled">>,
                <<"confirmed", "completed">>, <<"confirmed", "cancelled">>}

\* C5: every change of an appointment's status follows an edge of the
\* appointment state machine; cancelled and completed are terminal.
C5_Original ==
  [][\A i \in 1..Len(appts) :
       (IsDoc(appts[i]) /\ IsDoc(appts'[i]) /\ appts'[i].status # appts[i].status)
          => <<appts[i].status, appts'[i].status>> \in StatusEdges]_vars

Denied == last.res \in {"unauthorized", "forbidden"}

AssignedDoctor(who, doc) ==
  role[who] = "doctor" /\ doc.doctor \in DoctorProfileOf(who)

\* C7 as stated: an update of an existing appointment is allowed exactly
\* when the principal is an admin, the assigned doctor, or the owner asking
\* for 'cancelled'; a denied call changes nothing.
C7_Original ==
  (last.op = "updateAppointment" /\ IsDoc(last.pre)) =>
    /\ ~Denied <=> \/ role[last.who] = "admin"
                   \/ AssignedDoctor(last.who, last.pre)
                   \/ (last.pre.user = last.who /\ last.arg.status = "cancelled")
    /\ Denied => appts[last.id] = last.pre

\* C7 (amended): an update of an existing appointment is allowed exactly
\* when the principal is an admin, or is a doctor-role principal whose
\* profile is the appointment's doctor, or is a user-role principal who
\* owns the appointment and asks for 'cancelled'; an owner of any other
\* role is denied; a denied call changes nothing.
C7_UpdateAuthorization ==
  (last.op = "updateAppointment" /\ IsDoc(last.pre)) =>
    /\ ~Denied <=> \/ role[last.who] = "admin"
                   \/ AssignedDoctor(last.who, last.pre)
                   \/ /\ role[last.who] = "user"
                      /\ last.pre.user = last.who
                      /\ last.arg.status = "cancelled"
    /\ Denied => appts[last.id] = last.pre

C7_Witness_OwnerOfOtherRole ==
  /\ last.op = "updateAppointment" /\ Denied
  /\ role[last.who] \in {"doctor", "lab_staff"}
  /\ last.pre.user = last.who /\ last.arg.status = "cancelled"

\* C8: an update served for a doctor-role principal changes nothing but
\* status and reason, and one served for a user-role principal changes
\* nothing but status, which becomes 'cancelled'.
C8_UpdateFrame ==
  (last.op = "updateAppointment" /\ last.res = "ok") =>
    /\ role[last.who] = "doctor" =>
         appts[last.id] = [last.pre EXCEPT !.status = appts[last.id].status,
                                           !.reason = appts[last.id].reason]
    /\ role[last.who] = "user" =>
         appts[last.id] = [last.pre EXCEPT !.status = "cancelled"]

C8_Witness_DoctorExtraPath ==
  /\ last.op = "updateAppointment" /\ last.res = "ok"
  /\ role[last.who] = "doctor"
  /\ last.arg.location = LocX
  /\ last.arg.status = "completed" /\ last.pre.status = "pending"
  /\ appts[last.id].status = "completed"

(***************************************************************************)
(* Claims about reading appointments and orders                            *)
(***************************************************************************)
\* C11: getAppointment on an existing appointment returns it exactly when
\* the principal owns it, or has role doctor and is the user linked to the
\* appointment's doctor, or has role admin or lab_staff; every other
\* principal is denied (401); identifiers are compared for equality; the
\* appointment is left as it was.
C11_ReadAuthorization ==
  (last.op = "getAppointment" /\ IsDoc(last.pre)) =>
    LET a == last.pre
        linked == /\ a.doctor \in DoctorIds
                  /\ IsDoc(doctors[a.doctor])
                  /\ doctors[a.doctor].user = last.who
        allowed == \/ a.user = last.who
                   \/ (role[last.who] = "doctor" /\ linked)
                   \/ role[last.who] \in {"admin", "lab_staff"}
    IN  /\ (last.res = "ok") <=> allowed
        /\ ~allowed => last.res = "unauthorized"
        /\ appts[last.id] = last.pre

C11_Witness_OtherDoctorDenied ==
  /\ last.op = "getAppointment" /\ last.res = "unauthorized"
  /\ role[last.who] = "doctor"
  /\ last.pre.doctor = "D2" /\ last.pre.user = "u1"

C11_Witness_AssignedDoctor ==
  /\ last.op = "getAppointment" /\ last.res = "ok"
  /\ role[last.who] = "doctor"
  /\ last.pre.doctor = "D1" /\ last.pre.user = "u2"

\* C12: an order is readable by exactly its owner and the admins, through
\* getOrder and through getOrders alike: a principal who owns an order,
\* whatever their role, gets it from getOrder and finds it in the list of
\* getOrders, and no principal who is not an admin receives an order of
\* another user from either.
C12_Original ==
  /\ (last.op = "getOrder" /\ IsDoc(last.pre)) =>
       ((last.res = "ok") <=> (last.pre.user = last.who \/ role[last.who] = "admin"))
  /\ last.op = "getOrders" =>
       /\ \A i \in 1..Len(orders) :
            (IsDoc(orders[i]) /\ orders[i].user = last.who) =>
              (last.res = "ok" /\ i \in last.out)
       /\ role[last.who] # "admin" => \A i \in last.out : orders[i].user = last.who

\* the part of C12 the order service keeps: getOrder serves exactly the owner
\* and the admins, and getOrders never hands a non-admin an order of
\* another user
C12_NoForeignOrder ==
  /\ (last.op = "getOrder" /\ IsDoc(last.pre)) =>
       ((last.res = "ok") <=> (last.pre.user = last.who \/ role[last.who] = "admin"))
  /\ (last.op = "getOrders" /\ role[last.who] # "admin") =>
       \A i \in last.out : orders[i].user = last.who

(***************************************************************************)
(* Claims about the doctor and lab directory                               *)
(***************************************************************************)
Refused == last.res \in {"unauthorized", "forbidden"}

\* C13: an update of an existing Doctor profile through its route is
\* permitted exactly when the principal is an admin or is the user linked
\* to that profile; a doctor-role principal never modifies the profile of
\* another doctor.
C13_Original ==
  (last.op = "updateDoctor" /\ IsDoc(last.pre)) =>
    /\ ~Refused <=> (role[last.who] = "admin" \/ last.pre.user = last.who)
    /\ (role[last.who] = "doctor" /\ last.pre.user # last.who) =>
         doctors[last.id] = last.pre

\* C14: an update of an existing Lab through its route is permitted exactly
\* when the principal is an admin, or is a lab_staff principal equal to the
\* lab's owning user; a lab_staff principal never updates a lab whose owning
\* user is someone else or is not set.
C14_Original ==
  (last.op = "updateLab" /\ IsDoc(last.pre)) =>
    /\ ~Refused <=> \/ role[last.who] = "admin"
                    \/ (role[last.who] = "lab_staff" /\ last.pre.user = last.who)
    /\ (role[last.who] = "lab_staff" /\ last.pre.user # last.who) =>
         labs[last.id] = last.pre

\* C15: a step that changes a Doctor profile leaves the stored location of
\* every appointment as it was, in particular of the appointments whose
\* location was copied from that doctor when they were created.
C15_SnapshotKept ==
  [][doctors' # doctors =>
       /\ Len(appts') = Len(appts)
       /\ \A i \in 1..Len(appts) :
            IsDoc(appts[i]) =>
              (IsDoc(appts'[i]) /\ appts'[i].location = appts[i].location)]_vars

C15_Witness_DoctorMoved ==
  /\ last.op = "updateDoctor" /\ last.res = "ok"
  /\ \E i \in 1..Len(appts) :
       /\ IsDoc(appts[i])
       /\ appts[i].doctor = last.id
       /\ appts[i].location =
            [coordinates |-> last.pre.coordinates, address |-> last.pre.clinicAddress]
       /\ doctors[last.id].coordinates # last.pre.coordinates

\* C16: once an appointment is stored with a location snapshot, no
\* updateAppointment call, by an admin, a doctor or a user and whatever its
\* payload, changes the stored location (coordinates and address) of the
\* appointment.
C16_Original ==
  (last.op = "updateAppointment" /\ IsDoc(last.pre)
     /\ last.pre.location # DefaultLocation) =>
    appts[last.id].location = last.pre.location

(***************************************************************************)
(* Claims about the list endpoints and the query composer                  *)
(***************************************************************************)
\* a filter parameter as the caller means it: <<field, operator, value>>
Satisfies(rec, c) ==
  CASE c[2] = "eq"  -> rec[c[1]] = c[3]
    [] c[2] = "gte" -> rec[c[1]] >= c[3]
    [] c[2] = "gt"  -> rec[c[1]] > c[3]
    [] c[2] = "lte" -> rec[c[1]] <= c[3]
    [] c[2] = "lt"  -> rec[c[1]] < c[3]

\* the limit a request asks for: its number when it denotes one that is at
\* least 1, the default when it is absent or does not parse, 0 otherwise
AskedLimit(text) ==
  CASE text = << >> -> DefaultLimit
    [] text = <<"x">> -> DefaultLimit
    [] text = <<"1">> -> 1
    [] text = <<"1", "x">> -> 1
    [] text = <<"2">> -> 2
    [] OTHER -> 0

Range(seq) == {seq[i] : i \in 1..Len(seq)}

\* C17: every record a list endpoint returns satisfies all of the supplied
\* equality and range filters, and at most limit records are returned
C17_Original ==
  (qry.op = "list" /\ qry.err = None) =>
     /\ \A i \in Range(qry.out) : \A c \in qry.params.filters :
          Satisfies(qry.recs[i], c)
     /\ AskedLimit(qry.params.limit) >= 1 =>
          Len(qry.out) <= AskedLimit(qry.params.limit)

\* the part of C17 that the list endpoints keep: at most limit records
C17_AtMostLimit ==
  (qry.op = "list" /\ qry.err = None /\ AskedLimit(qry.params.limit) >= 1) =>
     Len(qry.out) <= AskedLimit(qry.params.limit)

RECURSIVE Flatten(_)
Flatten(ws) == IF ws = << >> THEN << >> ELSE Head(ws) \o Flatten(Tail(ws))

\* C18: for a limit L >= 1 the windows of page 1, 2, 3, ... hold at most L
\* records each, are pairwise disjoint, and once a window comes back empty
\* they hold every matching record exactly once; an absent or unparsable
\* page is page 1, an absent or unparsable limit is 25
C18_WindowsPartition ==
  LET L == AskedLimit(qry.params.limit)
      all == Matching(qry.recs, ListFeatures(qry.params))
      flat == Flatten(qry.windows)
  IN  /\ (qry.op = "pages" /\ L >= 1) =>
           /\ qry.err = None
           /\ \A k \in 1..Len(qry.windows) : Len(qry.windows[k]) <= L
           /\ \A i, j \in 1..Len(flat) : i # j => flat[i] # flat[j]
           /\ Range(flat) \subseteq Range(all)
           /\ (qry.windows[Len(qry.windows)] = << >>) => Range(flat) = Range(all)
      /\ (qry.op = "list" /\ L >= 1 /\ qry.params.page \in {<< >>, <<"x">>}) =>
           /\ qry.err = None
           /\ qry.out = SubSeq(all, 1, IF L < Len(all) THEN L ELSE Len(all))

\* three pages of one record each were fetched and the fourth request is
\* the one that would come back empty
C18_Witness_ThreeWindows ==
  /\ qry.op = "pages"
  /\ AskedLimit(qry.params.limit) = 1
  /\ Len(qry.windows) = 3
  /\ qry.windows[1] # << >> /\ qry.windows[2] # << >>
  /\ qry.windows[3] = << >>

KeywordMatches(rec, keyword) ==
  \E field \in {"name", "description"} : IsSubstr(Lower(keyword), Lower(rec[field]))

\* C19: with a keyword and filters both supplied, search().filter().applyFind()
\* selects a record exactly when the keyword matches one of its searchable
\* fields and every filter matches
C19_Original ==
  (qry.op = "compose" /\ qry.params.keyword # << >> /\ qry.params.filters # {}) =>
     \A i \in 1..Len(qry.recs) :
        i \in Range(qry.out) <=>
          /\ KeywordMatches(qry.recs[i], qry.params.keyword)
          /\ \A c \in qry.params.filters : Satisfies(qry.recs[i], c)

\* the same, for filters whose values are not one of the words gte, gt, lte, lt
C19_PlainValues ==
  (/\ qry.op = "compose" /\ qry.params.keyword # << >> /\ qry.params.filters # {}
   /\ \A c \in qry.params.filters : c[1] = "price" \/ Dollar(c[3]) = c[3]) =>
     \A i \in 1..Len(qry.recs) :
        i \in Range(qry.out) <=>
          /\ KeywordMatches(qry.recs[i], qry.params.keyword)
          /\ \A c \in qry.params.filters : Satisfies(qry.recs[i], c)

\* a record is dropped by the filter although the keyword matches it
C19_Witness_FilterExcludes ==
  /\ qry.op = "compose" /\ qry.params.keyword # << >> /\ qry.params.filters # {}
  /\ \E i \in 1..Len(qry.recs) :
       /\ KeywordMatches(qry.recs[i], qry.params.keyword)
       /\ i \notin Range(qry.out)
  /\ qry.out # << >>

(***************************************************************************)
(* Claims about the password reset token                                   *)
(***************************************************************************)
\* no user document holds a raw token that getResetPasswordToken returned
RawTokenNotStored ==
  \A u \in Accounts : acct.users[u].resetPasswordToken \notin 1..acct.issued

\* the raw token was mailed and its expiry has not passed in account state a
Unexpired(a, token) ==
  \E s \in a.sent : s.token = token /\ a.now < s.expire

\* the raw token is the last one generated for its user, was mailed, has not
\* been used and has not expired in account state a
Live(a, token) ==
  \E s \in a.sent : /\ s.token = token
                    /\ a.latest[s.user] = token
                    /\ token \notin a.spent
                    /\ a.now < s.expire

ResetCleared(u) ==
  /\ acct.users[u].resetPasswordToken = 0
  /\ acct.users[u].resetPasswordExpire = 0

\* C20 as stated: the raw token is never stored, and of the resetPassword
\* calls made with a mailed token before its expiry exactly the first one
\* succeeds, clearing the stored hash and expiry
C20_Original ==
  /\ RawTokenNotStored
  /\ (last.op = "resetPassword" /\ Unexpired(last.pre, last.arg.token)) =>
       /\ last.res = "ok" <=> last.arg.token \notin last.pre.tried
       /\ last.res = "ok" => ResetCleared(last.who)

\* C20, amended: the raw token is never stored; a resetPassword call succeeds
\* exactly when its token is the last one generated for a user, was mailed,
\* is unused and unexpired, and the new password passes validation; a success
\* clears the stored hash and expiry and a failure changes no user, so at
\* most one call per token succeeds and every later call with it fails
C20_SingleUse ==
  /\ RawTokenNotStored
  /\ last.op = "resetPassword" =>
       /\ last.res = "ok" <=>
            /\ Live(last.pre, last.arg.token)
            /\ Len(last.arg.password) >= MinPassword
       /\ last.res = "ok" =>
            /\ ResetCleared(last.who)
            /\ last.arg.token \in acct.spent
            /\ ~Live(acct, last.arg.token)
       /\ last.res # "ok" => acct.users = last.pre.users
       /\ last.arg.token \in last.pre.spent => last.res = "invalidToken"

\* a second call with a token that already reset the password, made before
\* the token's expiry, is refused
C20_Witness_SecondCallFails ==
  /\ last.op = "resetPassword"
  /\ last.arg.token \in last.pre.spent
  /\ Unexpired(last.pre, last.arg.token)
  /\ last.res = "invalidToken"

(***************************************************************************)
(* Claims about forgotPassword                                             *)
(***************************************************************************)
\* C21: a forgotPassword request for an email no user has gets the response
\* of a request whose email was sent, and writes no token or expiry (nor
\* anything else) on any user
C21_UnknownEmailSameResponse ==
  last.op = "forgotPassword" =>
     /\ (last.arg.email \notin Accounts \/ acct.sent # last.pre.sent) =>
          last.res = [status |-> 200, data |-> "Email sent"]
     /\ last.arg.email \notin Accounts =>
          /\ acct.users = last.pre.users
          /\ acct.issued = last.pre.issued

\* a request for an unknown email, made while a user holds a reset token
C21_Witness_UnknownEmail ==
  /\ last.op = "forgotPassword"
  /\ last.arg.email \notin Accounts
  /\ \E u \in Accounts : acct.users[u].resetPasswordToken # 0

\* a request for a known email whose message was sent
C21_Witness_KnownEmail ==
  /\ last.op = "forgotPassword"
  /\ last.arg.email \in Accounts
  /\ acct.sent # last.pre.sent

\* C22: when sendEmail fails, the hash and expiry saved on the user are
\* cleared again and the request ends in an error
C22_FailedEmailClearsToken ==
  (last.op = "forgotPassword" /\ last.arg.email \in Accounts /\ ~last.arg.delivered) =>
     /\ acct.users[last.arg.email].resetPasswordToken = 0
     /\ acct.users[last.arg.email].resetPasswordExpire = 0
     /\ last.res.status >= 400
     /\ \A token \in 1..(2 * MaxTokens) : FindByResetToken(Hash(token)) \cap {last.arg.email} = {}

\* the email of a user who already held a token could not be sent
C22_Witness_EmailFailed ==
  /\ last.op = "forgotPassword"
  /\ last.arg.email \in Accounts
  /\ ~last.arg.delivered
  /\ last.pre.users[last.arg.email].resetPasswordToken # 0

(***************************************************************************)
(* Claims about createDoctor                                               *)
(***************************************************************************)
\* C23: a createDoctor call that fails leaves every user's role as it was,
\* and every user whom createDoctor promoted to doctor has a Doctor profile
\* linked to them
C23_Original ==
  /\ (last.op = "createDoctor" /\ last.res # "ok") => role = last.pre.role
  /\ \A u \in Users :
       (role[u] = "doctor" /\ InitRole[u] # "doctor") => DoctorProfileOf(u) # {}

\* what does hold: a role changes only in createDoctor, and only the caller's
\* role, to doctor
C23_OnlyCallerPromoted ==
  /\ last.op = "createDoctor" =>
       \A u \in Users : role[u] # last.pre.role[u] => (u = last.who /\ role[u] = "doctor")
  /\ \A u \in Users : role[u] \in {InitRole[u], "admin", "doctor"}

\* C25: every Doctor profile that createDoctor persists has a coordinate
\* pair and a clinic address; coordinates without an address, or an address
\* without coordinates, persist nothing
C25_Original ==
  last.op = "createDoctor" =>
     /\ last.res = "ok" =>
          /\ doctors[last.id].coordinates # None
          /\ doctors[last.id].clinicAddress # None
     /\ ((last.arg.latitude # None /\ last.arg.longitude # None)
           # (last.arg.clinicAddress # None)) =>
          /\ last.res # "ok"
          /\ doctors = last.pre.doctors

\* the half of C25 that holds: an address without coordinates persists nothing
C25_AddressNeedsCoordinates ==
  (/\ last.op = "createDoctor"
   /\ last.arg.clinicAddress # None
   /\ (last.arg.latitude = None \/ last.arg.longitude = None)) =>
     /\ last.res # "ok"
     /\ doctors = last.pre.doctors

(***************************************************************************)
(* Claims about the error kinds of the single-entity operations            *)
(***************************************************************************)
\* the principal of the last order call has no permission for it
LacksOrderPermission ==
  CASE last.op = "getOrder" ->
         role[last.who] # "admin" /\ last.pre.user # last.who
    [] last.op = "updateOrderStatus" ->
         /\ role[last.who] # "admin"
         /\ ~(last.pre.user = last.who /\ last.arg = "cancelled")
    [] OTHER -> role[last.who] # "admin"

\* C24: a single-entity call with an id that matches no record fails with
\* not-found for every principal, and a call on an existing record by a
\* principal without permission fails with a permission kind, never with
\* another kind
C24_Original ==
  last.op \in {"getOrder", "updateOrderStatus", "updateOrderToPaid",
               "updateOrderToDelivered", "deleteOrder"} =>
     /\ ~IsDoc(last.pre) => last.res = "notFound"
     /\ (IsDoc(last.pre) /\ LacksOrderPermission) =>
          last.res \in {"unauthorized", "forbidden"}

\* the half of C24 that holds: an id that matches no record gives not-found
\* whoever asks, and an existing record never does
C24_NotFoundIffMissing ==
  last.op \in {"getOrder", "updateOrderStatus", "updateOrderToPaid",
               "updateOrderToDelivered", "deleteOrder"} =>
     (last.res = "notFound" <=> ~IsDoc(last.pre))

(***************************************************************************)
(* Claims about interleaved and failing createOrder calls                  *)
(***************************************************************************)
\* requests r1 and r2 both succeeded with one line item each on medicine m,
\* both began at the same stock of m, and their quantities add up to more
\* than that stock
Oversold(r1, r2, m) ==
  /\ r1 # r2
  /\ creq[r1].pc = "done" /\ creq[r2].pc = "done"
  /\ Len(creq[r1].items) = 1 /\ Len(creq[r2].items) = 1
  /\ creq[r1].items[1].medicine = m /\ creq[r2].items[1].medicine = m
  /\ creq[r1].stock0[m] = creq[r2].stock0[m]
  /\ creq[r1].items[1].quantity + creq[r2].items[1].quantity > creq[r1].stock0[m]

\* C26: two concurrent createOrder calls on one medicine can both read a
\* stock that suffices for their own quantity before either write, and both
\* succeed: whenever two such calls have oversold, each quantity was within
\* the stock both read, both orders are persisted, and the stock left is
\* what the later of the two writes computed from that read
C26_OversellByStaleRead ==
  \A r1, r2 \in Reqs : \A m \in Medicines :
    Oversold(r1, r2, m) =>
      LET S == creq[r1].stock0[m]
          q1 == creq[r1].items[1].quantity
          q2 == creq[r2].items[1].quantity
      IN  /\ q1 <= S /\ q2 <= S
          /\ \A r \in {r1, r2} :
               /\ OrderExists(creq[r].orderId)
               /\ orders[creq[r].orderId] = NewOrder(creq[r].user, creq[r].items)
          /\ stock[m] \in {S - q1, S - q2}

\* both calls succeeded and the persisted quantities exceed the stock
C26_Witness_Oversell ==
  \E r1, r2 \in Reqs : \E m \in Medicines :
    /\ Oversold(r1, r2, m)
    /\ Len(orders) = 2
    /\ orders[1].orderItems[1].quantity + orders[2].orderItems[1].quantity
         > creq[r1].stock0[m]

\* the quantity of medicine m in the first n line items
RECURSIVE Taken(_, _, _)
Taken(items, n, m) ==
  IF n = 0 THEN 0
  ELSE Taken(items, n - 1, m) + (IF items[n].medicine = m THEN items[n].quantity ELSE 0)

\* the call of request r failed at line item creq[r].idx
FailedAtItem(r) ==
  creq[r].pc = "failed" /\ creq[r].err \in {"notFound", "insufficient"}

\* C27: when createOrder fails at line item k, no order is persisted and
\* every medicine's stock is its stock before the call minus the quantities
\* of that medicine in items 1..k-1: the decrements already written remain,
\* and item k and the later items have taken nothing
C27_PartialDecrementsKept ==
  \A r \in Reqs :
    FailedAtItem(r) =>
      /\ Len(orders) = creq[r].orders0
      /\ \A m \in Medicines :
           stock[m] = creq[r].stock0[m] - Taken(creq[r].items, creq[r].idx - 1, m)

\* a call failed at its second line item after the first was decremented
C27_Witness_FailedAfterDecrement ==
  /\ FailedAtItem("r1")
  /\ creq["r1"].idx = 2
  /\ stock[creq["r1"].items[1].medicine] < creq["r1"].stock0[creq["r1"].items[1].medicine]

\* C28 as stated: the unique index {user, doctor, appointmentDate,
\* appointmentTime} never rejects a lab appointment, so a createAppointment
\* call that carries a lab reference and no doctor is never answered with a
\* duplicate-key error
C28_Original ==
  (last.op = "createAppointment" /\ last.arg.lab # None /\ last.arg.doctor = None) =>
    last.res # "duplicate"

\* what the index enforces instead: no user holds two persisted lab
\* appointments (doctor null on both) for the same date and time
C28_LabSlotUnique ==
  \A i, j \in 1..Len(appts) :
    (/\ i # j
     /\ IsDoc(appts[i]) /\ IsDoc(appts[j])
     /\ appts[i].type = "lab" /\ appts[j].type = "lab"
     /\ appts[i].doctor = None /\ appts[j].doctor = None
     /\ appts[i].user = appts[j].user
     /\ appts[i].appointmentDate = appts[j].appointmentDate) =>
      appts[i].appointmentTime # appts[j].appointmentTime

\* C29 as stated: whatever updateOrderToDelivered and updateOrderStatus
\* calls admins and owners have made, every persisted order has its
\* delivered flag set if and only if its status is 'delivered'
C29_Original ==
  \A i \in 1..Len(orders) :
    IsDoc(orders[i]) => (orders[i].isDelivered <=> orders[i].orderStatus = "delivered")

\* the flag without the status: an order that was delivered and whose
\* status a later updateOrderStatus moved away from 'delivered'
C29_FlagWithoutStatus ==
  \E i \in 1..Len(orders) :
    IsDoc(orders[i]) /\ orders[i].isDelivered /\ orders[i].orderStatus # "delivered"

\* the status without the flag: updateOrderStatus(id, 'delivered') by an admin
C29_StatusWithoutFlag ==
  \E i \in 1..Len(orders) :
    IsDoc(orders[i]) /\ ~orders[i].isDelivered /\ orders[i].orderStatus = "delivered"

\* requests r1 and r2 both began at the same stock with no order persisted
\* and both succeeded: since they began, they alone have written the stock,
\* and their two orders are the persisted ones
BothSucceeded(r1, r2) ==
  /\ r1 # r2
  /\ creq[r1].pc = "done" /\ creq[r2].pc = "done"
  /\ creq[r1].orders0 = 0 /\ creq[r2].orders0 = 0
  /\ creq[r1].stock0 = creq[r2].stock0
  /\ Len(orders) = 2

\* C30 as stated: when interleaved createOrder calls have all succeeded,
\* each medicine's stock is its stock before the calls minus the quantities
\* of that medicine over the persisted orders; no decrement is lost
C30_Original ==
  \A r1, r2 \in Reqs :
    BothSucceeded(r1, r2) =>
      \A m \in Medicines :
        stock[m] = creq[r1].stock0[m]
                     - Taken(orders[1].orderItems, Len(orders[1].orderItems), m)
                     - Taken(orders[2].orderItems, Len(orders[2].orderItems), m)

====
